---- MODULE Spec2Model ----
(***************************************************************************)
(* A model of src/env.rs: RandomAccessFile (an Arc<Mutex<F>> with the      *)
(* positioned read read_at), the Env lock/unlock pair, the Env's files and *)
(* directories, and Logger.log.                                            *)
(***************************************************************************)
EXTENDS Integers, Sequences, FiniteSets, TLC

\* ------------------------------------------------------------------ bounds
\* Longest file content the model opens.
MaxFileLen == 2
\* Number of threads that may own a clone of a RandomAccessFile.
NumThreads == 2
\* Width of usize in the model (the real targets have 32 or 64 bits; the
\* code only distinguishes values up to isize::MAX from larger ones).
UsizeBits == 3

\* Longest message handed to Logger.log, in characters.
MaxMsgLen == 2
\* Number of Logger.log calls in a run.
MaxLogs == 2
\* Paths that can be locked, and claimants calling lock and unlock.
NumPaths == 2
NumClaimants == 2

UsizeMax == 2 ^ UsizeBits - 1
IsizeMax == 2 ^ (UsizeBits - 1) - 1

\* The values of a usize argument.
Usize == 0 .. UsizeMax

Threads == 1 .. NumThreads
\* The value of a Mutex's owner field while nobody holds it.
NoThread == 0
\* RandomAccessFile instances: separate RandomAccessFile::new calls.
Inst == {"A", "B"}
NoInst == "none"

\* Bytes of the file. read_at never inspects a byte, so distinct non-zero
\* bytes (the buffer is zero-filled before the read) tell every position apart.
ByteAt(k) == 10 + k
Contents == { [k \in 1 .. n |-> ByteAt(k)] : n \in 0 .. MaxFileLen }

\* Arguments a caller passes: offsets and lengths of nothing, of one byte and
\* of the longest file (past the end of every shorter one), and one value
\* above isize::MAX.
Offsets == {0, 1, MaxFileLen, IsizeMax + 1}
Lens == {0, 1, MaxFileLen, IsizeMax + 1}

Min(a, b) == IF a < b THEN a ELSE b

VARIABLES
    content,   \* the bytes of the file the handles F are opened on
    pos,       \* pos[i]: the read position of the F inside instance i
    owner,     \* owner[i]: the thread holding instance i's Mutex, or NoThread
    poisoned,  \* poisoned[i]: a holder of instance i's Mutex panicked
    strong,    \* strong[i]: the Arc's strong count
    file,      \* file[i]: the F inside instance i: "none" before new, "open", or
               \* "closed" once the Mutex<F> was dropped
    handle,    \* handle[t]: the instance thread t owns a clone of, or NoInst
    pc,        \* pc[t]: where thread t stands in read_at
    req,       \* req[t]: the (off, len) of t's call
    ret,       \* ret[t]: the Result of t's call
    ops        \* ops[t]: the calls t's read_at made on F, in order

rafVars == <<content, pos, owner, poisoned, strong, file, handle, pc, req, ret, ops>>

VARIABLES
    sink,      \* the bytes Logger.dst has received, in order
    msg,       \* the message of the last log call (code points)
    writes,    \* the dst.write calls of the last log call: buffer and result
    logs,      \* number of log calls made
    logRet,    \* how the last log call ended
    failed     \* some dst.write has returned an error so far

logVars == <<sink, msg, writes, logs, logRet, failed>>

VARIABLES
    held,      \* the paths the Env holds a claim on
    tokens,    \* tokens[c]: the FileLock tokens claimant c owns, by path
    lockRet    \* lockRet[c]: claimant c's last lock or unlock and its result

lockVars == <<held, tokens, lockRet>>

VARIABLES
    fs,        \* the entries of the Env's filesystem, by the path they exist at
    wh,        \* the WritableFile handle the engine last opened
    fsRet      \* the last Env call that changes the filesystem, and its result

fsVars == <<fs, wh, fsRet>>

\* ------------------------------------------------------------ error::Result
NoRet == [kind |-> "None", data |-> <<>>]
Ok(bytes) == [kind |-> "Ok", data |-> bytes]
Err(code) == [kind |-> code, data |-> <<>>]

\* error::from_lock_result: a poisoned LockResult becomes the lock-error status.
from_lock_result(isPoisoned) == IF isPoisoned THEN "LockError" ELSE "Ok"
\* error::from_io_result: an io::Error becomes the I/O-error status.
from_io_result(ioOk) == IF ioOk THEN "Ok" ELSE "IOError"

NoReq == [off |-> 0, len |-> 0]

\* ------------------------------------------------------ the file handle F
\* F::seek(SeekFrom::Start(off as u64)) on an OS file: the offset is passed as
\* a signed file offset, so a value above the signed maximum is refused;
\* seeking past the end of the file is allowed.
SeekOk(off) == off <= IsizeMax

\* Bytes left between position p and the end of the file.
Avail(p) == IF p < Len(content) THEN Len(content) - p ELSE 0

\* F::read_exact(buf) with buf of n bytes at position p: the number of bytes
\* moved into the buffer before the read either filled it or hit the end of
\* the file, and those bytes.
ReadCount(p, n) == Min(n, Avail(p))
ReadBytes(p, n) == SubSeq(content, p + 1, p + ReadCount(p, n))

Zeros(n) == [k \in 1 .. n |-> 0]

\* --------------------------------------------------------- RandomAccessFile
\* RandomAccessFile::new(f) has run once, for instance A, owned by thread 1.
InitRAF ==
    /\ content \in Contents
    /\ pos = [i \in Inst |-> 0]
    /\ owner = [i \in Inst |-> NoThread]
    /\ poisoned = [i \in Inst |-> FALSE]
    /\ strong = [i \in Inst |-> IF i = "A" THEN 1 ELSE 0]
    /\ file = [i \in Inst |-> IF i = "A" THEN "open" ELSE "none"]
    /\ handle = [t \in Threads |-> IF t = 1 THEN "A" ELSE NoInst]
    /\ pc = [t \in Threads |-> "idle"]
    /\ req = [t \in Threads |-> NoReq]
    /\ ret = [t \in Threads |-> NoRet]
    /\ ops = [t \in Threads |-> <<>>]

\* RandomAccessFile::new(f): thread t wraps a newly opened F (positioned at
\* the start of the same file) in an Arc<Mutex<F>> of its own.
new(t, i) ==
    /\ pc[t] = "idle" /\ handle[t] = NoInst
    /\ file[i] = "none"
    /\ file' = [file EXCEPT ![i] = "open"]
    /\ strong' = [strong EXCEPT ![i] = 1]
    /\ pos' = [pos EXCEPT ![i] = 0]
    /\ owner' = [owner EXCEPT ![i] = NoThread]
    /\ poisoned' = [poisoned EXCEPT ![i] = FALSE]
    /\ handle' = [handle EXCEPT ![t] = i]
    /\ UNCHANGED <<content, pc, req, ret, ops>>
    /\ UNCHANGED <<logVars, lockVars, fsVars>>

\* #[derive(Clone)]: thread t clones its handle (Arc::clone adds one to the
\* strong count) and hands the clone to u.
clone(t, u) ==
    /\ pc[t] = "idle" /\ handle[t] # NoInst
    /\ pc[u] = "idle" /\ handle[u] = NoInst
    /\ handle' = [handle EXCEPT ![u] = handle[t]]
    /\ strong' = [strong EXCEPT ![handle[t]] = @ + 1]
    /\ UNCHANGED <<content, pos, owner, poisoned, file, pc, req, ret, ops>>
    /\ UNCHANGED <<logVars, lockVars, fsVars>>

\* A drop that releases the resource whatever the count is.
ArcDropAlways(i) == TRUE
\* Arc's drop: only the drop that takes the strong count from 1 to 0 drops
\* the Mutex<F> inside.
ArcDropIsLast(i) == strong[i] = 1

\* Dropping a clone (also while unwinding from a panic).
drop(t) ==
    /\ pc[t] \in {"idle", "panicked"} /\ handle[t] # NoInst
    /\ LET i == handle[t] IN
        /\ file' = [file EXCEPT ![i] = IF ArcDropIsLast(i) THEN "closed" ELSE @]
        /\ strong' = [strong EXCEPT ![i] = @ - 1]
    /\ handle' = [handle EXCEPT ![t] = NoInst]
    /\ UNCHANGED <<content, pos, owner, poisoned, pc, req, ret, ops>>
    /\ UNCHANGED <<logVars, lockVars, fsVars>>

\* A caller enters read_at(off, len) on its clone.
read_at_call(t, off, len) ==
    /\ off \in Usize /\ len \in Usize
    /\ pc[t] = "idle" /\ handle[t] # NoInst
    /\ pc' = [pc EXCEPT ![t] = "lock"]
    /\ req' = [req EXCEPT ![t] = [off |-> off, len |-> len]]
    /\ UNCHANGED <<content, pos, owner, poisoned, strong, file, handle, ret, ops>>
    /\ UNCHANGED <<logVars, lockVars, fsVars>>

\* A lock shared by all instances (one Mutex for every RandomAccessFile).
LockFreeGlobal(i) == \A j \in Inst : owner[j] = NoThread
\* A lock that never waits for the holder.
LockNoWait(i) == TRUE
\* Mutex::lock returns only once no other thread holds the Mutex.
LockFree(i) == owner[i] = NoThread

\* A lock whose poison is ignored (the guard taken out of the PoisonError).
LockOutcomeIntoInner(i) == "Ok"
\* Line 22: what try!(error::from_lock_result(self.f.lock())) sees.
LockOutcome(i) == from_lock_result(poisoned[i])

\* A lock that reports the poison once and clears it.
read_at_lock_clears_poison(t) ==
    LET i == handle[t] IN
    /\ pc[t] = "lock"
    /\ LockFree(i)
    /\ IF LockOutcome(i) = "Ok"
       THEN /\ owner' = [owner EXCEPT ![i] = t]
            /\ pc' = [pc EXCEPT ![t] = "seek"]
            /\ ret' = ret
       ELSE /\ owner' = owner
            /\ pc' = [pc EXCEPT ![t] = "ret"]
            /\ ret' = [ret EXCEPT ![t] = Err(LockOutcome(i))]
    /\ poisoned' = [poisoned EXCEPT ![i] = FALSE]
    /\ UNCHANGED <<content, pos, strong, file, handle, req, ops>>
    /\ UNCHANGED <<logVars, lockVars, fsVars>>

\* Line 22: self.f.lock() waits until the Mutex is free; a poisoned Mutex
\* yields an error, whose guard is dropped at once by from_lock_result, and
\* try! returns it.
read_at_lock(t) ==
    LET i == handle[t] IN
    /\ pc[t] = "lock"
    /\ LockFree(i)
    /\ IF LockOutcome(i) = "Ok"
       THEN /\ owner' = [owner EXCEPT ![i] = t]
            /\ pc' = [pc EXCEPT ![t] = "seek"]
            /\ ret' = ret
       ELSE /\ owner' = owner
            /\ pc' = [pc EXCEPT ![t] = "ret"]
            /\ ret' = [ret EXCEPT ![t] = Err(LockOutcome(i))]
    /\ UNCHANGED <<content, pos, poisoned, strong, file, handle, req, ops>>
    /\ UNCHANGED <<logVars, lockVars, fsVars>>

\* A seek relative to the current position.
SeekFromCurrent(p, off) == p + off
\* Line 23: SeekFrom::Start(off) sets the position to off, whatever it was.
SeekFromStart(p, off) == off

\* A guard that lives only for the seek statement.
GuardDroppedAfterSeek == FALSE
\* Lines 22-28: the guard f is a local of read_at, alive until it returns.
GuardLivesUntilReturn == TRUE

\* A seek whose error is dropped instead of returned.
SeekOutcomeIgnored(off) == "Ok"
\* Line 23: what try!(error::from_io_result(f.seek(...))) sees.
SeekOutcome(off) == from_io_result(SeekOk(off))

\* A guard that is leaked when try! returns early.
LeakGuardOnTry(o, t) == o
\* Line 23: the early return of try! drops the guard f, which unlocks the
\* Mutex its thread holds.
DropGuardOnTry(o, t) == IF o = t THEN NoThread ELSE o

\* Line 23: f.seek(SeekFrom::Start(off)); on failure try! returns the error
\* and the guard is dropped.
read_at_seek(t) ==
    LET i == handle[t] IN
    /\ pc[t] = "seek"
    /\ ops' = [ops EXCEPT ![t] = Append(@, "seek")]
    /\ IF SeekOutcome(req[t].off) = "Ok"
       THEN /\ pos' = [pos EXCEPT ![i] = SeekFromStart(@, req[t].off)]
            /\ pc' = [pc EXCEPT ![t] = "read"]
            /\ owner' = IF GuardLivesUntilReturn THEN owner
                        ELSE [owner EXCEPT ![i] = NoThread]
            /\ ret' = ret
       ELSE /\ pos' = pos
            /\ owner' = [owner EXCEPT ![i] = DropGuardOnTry(@, t)]
            /\ pc' = [pc EXCEPT ![t] = "ret"]
            /\ ret' = [ret EXCEPT ![t] = Err(SeekOutcome(req[t].off))]
    /\ UNCHANGED <<content, poisoned, strong, file, handle, req>>
    /\ UNCHANGED <<logVars, lockVars, fsVars>>

\* A buffer left empty (capacity reserved, length not set).
BufLenUnsized(len) == 0
\* Lines 25-26: buf.resize(len, 0) makes the buffer len zero bytes long.
BufLen(len) == len

\* A plain read: whatever number of bytes arrived counts as success.
ReadAnyOk(got, n) == TRUE
\* Line 27: read_exact succeeds only when it filled the whole buffer.
ReadExactOk(got, n) == got = n

\* A guard that is leaked instead of dropped at the end of read_at.
LeakGuardAtReturn(o, t) == o
\* Line 28: leaving read_at (by return or by unwinding) drops the guard f,
\* which unlocks the Mutex its thread holds.
DropGuardAtReturn(o, t) == IF o = t THEN NoThread ELSE o

\* Lines 25-27: the buffer is resized to len zero bytes (Vec::resize panics
\* with a capacity overflow above isize::MAX bytes; the unwinding drops the
\* guard, which poisons the Mutex), then read_exact fills it or fails; the
\* guard is dropped when the function returns.
read_at_read_exact(t) ==
    LET i == handle[t]
        n == BufLen(req[t].len)
        got == ReadCount(pos[i], n)
        buf == ReadBytes(pos[i], n) \o Zeros(n - got)
    IN
    /\ pc[t] = "read"
    /\ owner' = [owner EXCEPT ![i] = DropGuardAtReturn(@, t)]
    /\ IF req[t].len > IsizeMax
       THEN /\ poisoned' = [poisoned EXCEPT ![i] = TRUE]
            /\ pc' = [pc EXCEPT ![t] = "panicked"]
            /\ UNCHANGED <<pos, ret, ops>>
       ELSE /\ ops' = [ops EXCEPT ![t] = Append(@, "read_exact")]
            /\ pos' = [pos EXCEPT ![i] = @ + got]
            /\ pc' = [pc EXCEPT ![t] = "ret"]
            /\ ret' = [ret EXCEPT ![t] =
                    IF from_io_result(ReadExactOk(got, n)) = "Ok"
                    THEN Ok(buf)
                    ELSE Err(from_io_result(ReadExactOk(got, n)))]
            /\ UNCHANGED poisoned
    /\ UNCHANGED <<content, strong, file, handle, req>>
    /\ UNCHANGED <<logVars, lockVars, fsVars>>

\* The caller takes the Result; the thread is ready for its next call.
read_at_return(t) ==
    /\ pc[t] = "ret"
    /\ pc' = [pc EXCEPT ![t] = "idle"]
    /\ req' = [req EXCEPT ![t] = NoReq]
    /\ ret' = [ret EXCEPT ![t] = NoRet]
    /\ ops' = [ops EXCEPT ![t] = <<>>]
    /\ UNCHANGED <<content, pos, owner, poisoned, strong, file, handle>>
    /\ UNCHANGED <<logVars, lockVars, fsVars>>

\* ------------------------------------------------------------------ Logger
\* Characters of a message, as code points: one that UTF-8 encodes in one
\* byte and one that takes two.
Chars == {97, 233}
Messages == UNION { [1 .. n -> Chars] : n \in 0 .. MaxMsgLen }

\* The UTF-8 encoding of a code point below 2048.
Utf8(c) == IF c < 128 THEN <<c>> ELSE <<192 + (c \div 64), 128 + (c % 64)>>

\* String::as_bytes: the UTF-8 bytes of the string.
RECURSIVE as_bytes(_)
as_bytes(m) == IF m = <<>> THEN <<>> ELSE Utf8(Head(m)) \o as_bytes(Tail(m))

\* Line 71: "\n".as_bytes() is the single byte 10.
NewLine == 10

\* What io::Write::write(buf) may return: an error, with no byte taken, or
\* Ok(n) with the first n <= buf.len() bytes taken.
WriteResults(buf) ==
    {[ok |-> FALSE, n |-> 0]} \cup {[ok |-> TRUE, n |-> k] : k \in 0 .. Len(buf)}
Taken(buf, r) == IF r.ok THEN SubSeq(buf, 1, r.n) ELSE <<>>

\* Logger::new(w) has run; nothing was logged yet.
InitLog ==
    /\ sink = <<>>
    /\ msg = <<>>
    /\ writes = <<>>
    /\ logs = 0
    /\ logRet = "none"
    /\ failed = FALSE

\* A result that is unwrapped: an error panics.
Unwrap(r) == IF r.ok THEN "continue" ELSE "panic"
\* Lines 70-71: `let _ = ...` drops the io::Result, whatever it is.
LetUnderscore(r) == "continue"

\* Logger::log(message): write the message's bytes, then the newline; both
\* results are dropped and the call returns ().
log(m, r1, r2) ==
    LET b1 == as_bytes(m)
        b2 == <<NewLine>>
        w1 == [buf |-> b1, res |-> r1]
        w2 == [buf |-> b2, res |-> r2]
        go1 == LetUnderscore(r1) = "continue"
        go2 == go1 /\ LetUnderscore(r2) = "continue"
    IN
    /\ logs < MaxLogs /\ logRet # "panic"
    /\ r1 \in WriteResults(b1) /\ r2 \in WriteResults(b2)
    /\ msg' = m
    /\ logs' = logs + 1
    /\ writes' = IF go1 THEN <<w1, w2>> ELSE <<w1>>
    /\ sink' = sink \o Taken(b1, r1) \o (IF go1 THEN Taken(b2, r2) ELSE <<>>)
    /\ failed' = (failed \/ ~r1.ok \/ (go1 /\ ~r2.ok))
    /\ logRet' = IF go2 THEN "unit" ELSE "panic"
    /\ UNCHANGED <<rafVars, lockVars, fsVars>>

\* ---------------------------------------------------------- Env lock/unlock
Paths == 1 .. NumPaths
Claimants == 1 .. NumClaimants

NoLockRet == [op |-> "none", path |-> 0, kind |-> "none"]

InitLock ==
    /\ held = {}
    /\ tokens = [c \in Claimants |-> [p \in Paths |-> 0]]
    /\ lockRet = [c \in Claimants |-> NoLockRet]

\* Tokens for path p that claimants own.
Outstanding(p) == LET RECURSIVE Sum(_)
                      Sum(S) == IF S = {} THEN 0
                                ELSE LET c == CHOOSE x \in S : TRUE
                                     IN tokens[c][p] + Sum(S \ {c})
                  IN Sum(Claimants)

\* Env::lock(path): a claim on a free path is granted and a token returned;
\* a path already claimed is refused with the locked error.
lock(c, p) ==
    /\ IF p \in held
       THEN /\ lockRet' = [lockRet EXCEPT ![c] = [op |-> "lock", path |-> p, kind |-> "Locked"]]
            /\ UNCHANGED <<held, tokens>>
       ELSE /\ held' = held \cup {p}
            /\ tokens' = [tokens EXCEPT ![c][p] = @ + 1]
            /\ lockRet' = [lockRet EXCEPT ![c] = [op |-> "lock", path |-> p, kind |-> "Ok"]]
    /\ UNCHANGED <<rafVars, logVars, fsVars>>

\* An unlock that only borrows the token: the caller keeps it.
unlock_borrows_token(n) == n
\* Line 52: unlock(&self, l: Self::FileLock) takes the token by value, so the
\* caller no longer has it.
unlock_takes_token(n) == n - 1

\* Env::unlock(token): releases the claim of a token the claimant owns.
unlock(c, p) ==
    /\ tokens[c][p] >= 1
    /\ held' = held \ {p}
    /\ tokens' = [tokens EXCEPT ![c][p] = unlock_takes_token(@)]
    /\ lockRet' = [lockRet EXCEPT ![c] = [op |-> "unlock", path |-> p, kind |-> "Ok"]]
    /\ UNCHANGED <<rafVars, logVars, fsVars>>

\* A call whose range lies inside the file.
\* ------------------------------------------------------ Env: the filesystem
\* Entry names, and the paths the model uses: the root, its entries and
\* their entries.
Names == {"a", "b"}
Root == <<>>
FsPaths == {Root} \cup {<<n>> : n \in Names} \cup {<<n, m>> : n, m \in Names}

\* Bytes written to files, and the byte sequences a file can hold.
FileBytes == {1, 2}
Blobs == UNION {[1 .. n -> FileBytes] : n \in 0 .. MaxFileLen}

NoEntry == [kind |-> "none", data |-> <<>>]
DirEntry == [kind |-> "dir", data |-> <<>>]
FileEntry(d) == [kind |-> "file", data |-> d]

NoFsRet == [op |-> "none", path |-> Root, to |-> Root, ok |-> FALSE]
FsOk(o, p, q) == [op |-> o, path |-> p, to |-> q, ok |-> TRUE]
FsErr(o, p, q) == [op |-> o, path |-> p, to |-> q, ok |-> FALSE]

NoHandle == [open |-> FALSE, path |-> Root, before |-> <<>>, written |-> <<>>,
             pending |-> <<>>]

\* An Env over a filesystem that holds only its root directory.
InitFs ==
    /\ fs = (Root :> DirEntry)
    /\ wh = NoHandle
    /\ fsRet = NoFsRet

\* The entry of filesystem f at path p, f with entry e put at p, and f with
\* no entry at p.
At(f, p) == IF p \in DOMAIN f THEN f[p] ELSE NoEntry
Put(f, p, e) == [q \in DOMAIN f \cup {p} |-> IF q = p THEN e ELSE f[q]]
Remove(f, p) == [q \in DOMAIN f \ {p} |-> f[q]]

parent_of(p) == SubSeq(p, 1, Len(p) - 1)
name_of(p) == p[Len(p)]
\* q is p or lies below p.
Under(p, q) == Len(p) <= Len(q) /\ SubSeq(q, 1, Len(p)) = p

\* Env::exists(path), Env::children(path) and Env::size_of(path) read the
\* filesystem and leave it as it is.
ExistsIn(f, p) == At(f, p).kind # "none"
ChildrenIn(f, p) ==
    {name_of(q) : q \in {r \in FsPaths : r # Root /\ parent_of(r) = p /\ ExistsIn(f, r)}}
exists(p) == ExistsIn(fs, p)
children(p) == ChildrenIn(fs, p)
size_of(p) == Len(At(fs, p).data)
HasChildren(p) == \E q \in FsPaths : q # p /\ Under(p, q) /\ At(fs, q).kind # "none"

\* A mkdir that creates the missing parents as well.
ParentAny(p) == TRUE
\* The parent of p is an existing directory.
ParentIsDir(p) == p # Root /\ At(fs, parent_of(p)).kind = "dir"

\* Env::mkdir(path): creates the directory; fails if the path exists or
\* its parent is missing.
mkdir(p) ==
    /\ IF ~exists(p) /\ ParentIsDir(p)
       THEN /\ fs' = Put(fs, p, DirEntry)
            /\ fsRet' = FsOk("mkdir", p, p)
       ELSE /\ fsRet' = FsErr("mkdir", p, p)
            /\ UNCHANGED fs
    /\ UNCHANGED wh
    /\ UNCHANGED <<rafVars, logVars, lockVars>>

\* Env::rmdir(path): removes the empty directory at path.
rmdir(p) ==
    /\ IF p # Root /\ At(fs, p).kind = "dir" /\ ~HasChildren(p)
       THEN /\ fs' = Remove(fs, p)
            /\ fsRet' = FsOk("rmdir", p, p)
       ELSE /\ fsRet' = FsErr("rmdir", p, p)
            /\ UNCHANGED fs
    /\ UNCHANGED wh
    /\ UNCHANGED <<rafVars, logVars, lockVars>>

\* Env::delete(path): removes the file at path; fails if there is none.
delete(p) ==
    /\ IF At(fs, p).kind = "file"
       THEN /\ fs' = Remove(fs, p)
            /\ fsRet' = FsOk("delete", p, p)
       ELSE /\ fsRet' = FsErr("delete", p, p)
            /\ UNCHANGED fs
    /\ UNCHANGED wh
    /\ UNCHANGED <<rafVars, logVars, lockVars>>

\* A rename that copies the entry and leaves the source where it was.
KeepSource(e) == e
\* What rename leaves at the source path.
Vacate(e) == NoEntry

\* The path that q, lying under from, has once from is moved to to.
Rebase(q, from, to) == to \o SubSeq(q, Len(from) + 1, Len(q))

\* rename can move from to to: from exists, the two paths differ, to's parent
\* is a directory outside from, and to is free or, on a backend that
\* overwrites (ow), an entry of from's kind without entries of its own.
CanRename(from, to, ow) ==
    /\ from # Root /\ to # Root /\ from # to
    /\ exists(from)
    /\ ParentIsDir(to) /\ ~Under(from, to)
    /\ \/ ~exists(to)
       \/ ow /\ At(fs, to).kind = At(fs, from).kind /\ ~HasChildren(to)
    /\ \A q \in FsPaths : (Under(from, q) /\ exists(q)) => Rebase(q, from, to) \in FsPaths

\* Env::rename(from, to): moves the entry at from, with all below it, to to
\* in one step.
rename(from, to, ow) ==
    /\ IF CanRename(from, to, ow)
       THEN /\ fs' = LET After(q) ==
                              IF Under(to, q) THEN At(fs, Rebase(q, to, from))
                              ELSE IF Under(from, q) THEN Vacate(At(fs, q)) ELSE At(fs, q)
                      IN [q \in {r \in FsPaths : After(r).kind # "none"} |-> After(q)]
            /\ fsRet' = FsOk("rename", from, to)
       ELSE /\ fsRet' = FsErr("rename", from, to)
            /\ UNCHANGED fs
    /\ UNCHANGED wh
    /\ UNCHANGED <<rafVars, logVars, lockVars>>

\* An open for writing that keeps what the file holds.
KeepData(d) == d
\* What open_writable_file leaves of the file's earlier content.
Truncate(d) == <<>>

\* Env::open_writable_file(path): creates the file or truncates it, and
\* returns the handle to write it through.
open_writable_file(p) ==
    /\ ~wh.open
    /\ IF ParentIsDir(p) /\ At(fs, p).kind # "dir"
       THEN /\ fs' = Put(fs, p, FileEntry(Truncate(At(fs, p).data)))
            /\ wh' = [open |-> TRUE, path |-> p, before |-> At(fs, p).data,
                      written |-> <<>>, pending |-> <<>>]
            /\ fsRet' = FsOk("open_writable_file", p, p)
       ELSE /\ fsRet' = FsErr("open_writable_file", p, p)
            /\ UNCHANGED <<fs, wh>>
    /\ UNCHANGED <<rafVars, logVars, lockVars>>

\* The bytes of the handle's file once the pending ones have reached it.
Flushed == Put(fs, wh.path, FileEntry(At(fs, wh.path).data \o wh.pending))

\* WritableFile's write_all(b): the handle accepts b; the bytes may stay in
\* the handle until a flush.
write_all(b) ==
    /\ wh.open /\ At(fs, wh.path).kind = "file"
    /\ b # <<>> /\ Len(wh.written) + Len(b) <= MaxFileLen
    /\ wh' = [wh EXCEPT !.written = @ \o b, !.pending = @ \o b]
    /\ fsRet' = FsOk("write_all", wh.path, wh.path)
    /\ UNCHANGED fs
    /\ UNCHANGED <<rafVars, logVars, lockVars>>

\* WritableFile's flush: the pending bytes reach the file.
flush ==
    /\ wh.open /\ At(fs, wh.path).kind = "file"
    /\ wh.pending # <<>>
    /\ fs' = Flushed
    /\ wh' = [wh EXCEPT !.pending = <<>>]
    /\ fsRet' = FsOk("flush", wh.path, wh.path)
    /\ UNCHANGED <<rafVars, logVars, lockVars>>

\* Dropping the WritableFile closes it: what is pending is written out.
close_writable ==
    /\ wh.open /\ At(fs, wh.path).kind = "file"
    /\ fs' = Flushed
    /\ wh' = [wh EXCEPT !.open = FALSE, !.pending = <<>>]
    /\ fsRet' = FsOk("close", wh.path, wh.path)
    /\ UNCHANGED <<rafVars, logVars, lockVars>>

\* Env::open_sequential_file(path): a forward-only handle at the start of
\* the file, and the bytes it reads up to the end of the file.
open_sequential_file(p) ==
    IF At(fs, p).kind = "file" THEN [ok |-> TRUE, path |-> p, at |-> 0]
                           ELSE [ok |-> FALSE, path |-> p, at |-> 0]
read_to_end(h) == SubSeq(At(fs, h.path).data, h.at + 1, Len(At(fs, h.path).data))

\* ------------------------------------------------------------ specifications
InBounds(off, len) == off + len <= Len(content)

\* A caller that only asks for a range inside the file.
read_at_call_in_bounds(t, off, len) ==
    /\ InBounds(off, len)
    /\ read_at_call(t, off, len)

vars == <<rafVars, logVars, lockVars, fsVars>>

Init == InitRAF /\ InitLog /\ InitLock /\ InitFs

Next ==
    \/ \E t \in Threads, u \in Threads : clone(t, u)
    \/ \E t \in Threads : drop(t)
    \/ \E t \in Threads, off \in Offsets, len \in Lens : read_at_call(t, off, len)
    \/ \E t \in Threads : read_at_lock(t)
    \/ \E t \in Threads : read_at_seek(t)
    \/ \E t \in Threads : read_at_read_exact(t)
    \/ \E t \in Threads : read_at_return(t)

\* Every caller of read_at, with any arguments.
Spec == Init /\ [][Next]_vars

\* The file holds MaxFileLen bytes.
InitFullFile == Init /\ Len(content) = MaxFileLen

\* The steps of a read_at that is under way: each thread that can take its
\* next step for good eventually takes it (the scheduler runs every runnable
\* thread, seek and read_exact return, the caller goes on after the return).
\* Mutex::lock promises no order among the threads that want the lock, so a
\* waiter is only sure to get it if it stays free.
Fairness ==
    \A t \in Threads :
        /\ WF_vars(read_at_lock(t))
        /\ WF_vars(read_at_seek(t))
        /\ WF_vars(read_at_read_exact(t))
        /\ WF_vars(read_at_return(t))

\* A caller at the ends of the argument range: the first byte or more bytes
\* than a Vec can hold, at the start of the file or at an offset the seek
\* refuses.
read_at_call_edge(t, off, len) ==
    /\ off = 0 \/ ~SeekOk(off)
    /\ len = 1 \/ len > IsizeMax
    /\ read_at_call(t, off, len)

NextFair ==
    \/ \E t \in Threads, u \in Threads : clone(t, u)
    \/ \E t \in Threads : drop(t)
    \/ \E t \in Threads, off \in Offsets, len \in Lens : read_at_call_edge(t, off, len)
    \/ \E t \in Threads : read_at_lock(t)
    \/ \E t \in Threads : read_at_seek(t)
    \/ \E t \in Threads : read_at_read_exact(t)
    \/ \E t \in Threads : read_at_return(t)

\* Threads whose steps are scheduled fairly, calling read_at on a full file.
SpecFair == InitFullFile /\ [][NextFair]_vars /\ Fairness

\* A caller that reads one byte at a seekable offset, or asks for more bytes
\* than a Vec can hold.
read_at_call_probe(t, off, len) ==
    /\ SeekOk(off)
    /\ len = 1 \/ len > IsizeMax
    /\ read_at_call(t, off, len)

NextTwo ==
    \/ \E t \in Threads, i \in Inst : new(t, i)
    \/ \E t \in Threads, u \in Threads : clone(t, u)
    \/ \E t \in Threads, off \in Offsets, len \in Lens : read_at_call_probe(t, off, len)
    \/ \E t \in Threads : read_at_lock(t)
    \/ \E t \in Threads : read_at_seek(t)
    \/ \E t \in Threads : read_at_read_exact(t)
    \/ \E t \in Threads : read_at_return(t)

\* Threads that may open a second RandomAccessFile on the same file.
SpecTwo == InitFullFile /\ [][NextTwo]_vars

NextInBounds ==
    \/ \E t \in Threads, u \in Threads : clone(t, u)
    \/ \E t \in Threads : drop(t)
    \/ \E t \in Threads, off \in Offsets, len \in Lens :
          read_at_call_in_bounds(t, off, len)
    \/ \E t \in Threads : read_at_lock(t)
    \/ \E t \in Threads : read_at_seek(t)
    \/ \E t \in Threads : read_at_read_exact(t)
    \/ \E t \in Threads : read_at_return(t)

\* Threads that only ever ask for ranges inside the file.
SpecInBounds == Init /\ [][NextInBounds]_vars

\* The Logger and the Env locks open no RandomAccessFile content.
InitNoFile == Init /\ content = <<>>

NextLogger ==
    \E m \in Messages :
        \E r1 \in WriteResults(as_bytes(m)), r2 \in WriteResults(<<NewLine>>) :
            log(m, r1, r2)

\* A Logger over a sink that may fail or take only part of a buffer.
SpecLogger == InitNoFile /\ [][NextLogger]_vars

NextDir ==
    \/ \E p \in FsPaths : mkdir(p)
    \/ \E p \in FsPaths : rmdir(p)
    \/ \E p \in FsPaths : delete(p)
    \/ \E a \in FsPaths, b \in FsPaths, ow \in BOOLEAN : rename(a, b, ow)
    \/ \E p \in FsPaths : open_writable_file(p)
    \/ close_writable

\* An engine that makes, removes and renames directories and files.
SpecDir == InitNoFile /\ [][NextDir]_vars

NextFile ==
    \/ \E p \in FsPaths : open_writable_file(p)
    \/ \E b \in Blobs : write_all(b)
    \/ flush
    \/ close_writable
    \/ \E p \in FsPaths : delete(p)

\* An engine that writes files through WritableFile handles.
SpecFile == InitNoFile /\ [][NextFile]_vars

NextEnv ==
    \/ \E c \in Claimants, p \in Paths : lock(c, p)
    \/ \E c \in Claimants, p \in Paths : unlock(c, p)

\* Claimants locking and unlocking paths of one Env.
SpecEnv == InitNoFile /\ [][NextEnv]_vars

\* ------------------------------------------------------------------ claims
\* The bytes C[off .. off+len) of a content, taken one position at a time.
RECURSIVE Range(_, _, _)
Range(C, off, len) ==
    IF len = 0 THEN <<>> ELSE <<C[off + 1]>> \o Range(C, off + 1, len - 1)

Returned(t) == pc[t] = "ret"
PoisonedLockError(t) ==
    /\ poisoned[handle[t]]
    /\ ret[t] = Err("LockError")

\* C1: while threads call read_at concurrently on clones of one
\* RandomAccessFile, each with a range of its own inside the file, every call
\* returns exactly the bytes of its own range, under every interleaving.
C1_OwnRange ==
    \A t \in Threads :
        Returned(t) => ret[t] = Ok(Range(content, req[t].off, req[t].len))

\* Two threads hold results of concurrent calls for different ranges.
C1_Witness ==
    \E t, u \in Threads :
        /\ t # u /\ handle[t] = handle[u]
        /\ Returned(t) /\ Returned(u)
        /\ req[t].len >= 1 /\ req[u].len >= 1
        /\ req[t].off # req[u].off
        /\ ret[t].kind = "Ok" /\ ret[u].kind = "Ok"

\* C2: at most one read_at per RandomAccessFile (counting all clones) is
\* between taking the lock and finishing its read, and the position a call's
\* seek has set is still there when its read starts.
C2_OneInFlight ==
    /\ \A i \in Inst :
          Cardinality({t \in Threads : handle[t] = i /\ pc[t] \in {"seek", "read"}}) <= 1
    /\ \A t \in Threads : pc[t] = "read" => pos[handle[t]] = req[t].off

\* One call is between its seek and its read while another waits for the lock.
C2_Witness ==
    \E t, u \in Threads :
        /\ t # u /\ handle[t] = handle[u]
        /\ pc[t] = "read" /\ pc[u] = "lock"
        /\ req[t].off # req[u].off

\* C3: a read_at whose range lies inside the file returns exactly the bytes
\* C[off .. off+len), a buffer of len bytes; the one other outcome is the
\* lock error of a poisoned Mutex.
C3_InBoundsExact ==
    \A t \in Threads :
        (Returned(t) /\ InBounds(req[t].off, req[t].len)) =>
            \/ /\ ret[t] = Ok(Range(content, req[t].off, req[t].len))
               /\ Len(ret[t].data) = req[t].len
            \/ PoisonedLockError(t)

\* A call for a range that starts inside the file returned its bytes.
C3_Witness ==
    \E t \in Threads :
        /\ Returned(t) /\ InBounds(req[t].off, req[t].len)
        /\ req[t].off >= 1 /\ req[t].len >= 1
        /\ ret[t].kind = "Ok"

\* C4 as stated: every read_at with off + len beyond the end of the file,
\* length 0 included, fails with an I/O error.
C4_Original ==
    \A t \in Threads :
        (pc[t] \in {"ret", "panicked"} /\ ~InBounds(req[t].off, req[t].len)) =>
            (Returned(t) /\ ret[t].kind = "IOError")

\* C4 amended: a read_at with off + len beyond the end of the file and
\* 1 <= len <= isize::MAX returns an I/O error (or the lock error of a
\* poisoned Mutex), never a successful result; with len = 0 and an offset
\* past the end that the seek accepts it returns the empty buffer.
C4_Amended ==
    \A t \in Threads :
        /\ (/\ pc[t] \in {"ret", "panicked"}
            /\ ~InBounds(req[t].off, req[t].len)
            /\ req[t].len >= 1 /\ req[t].len <= IsizeMax) =>
               /\ Returned(t)
               /\ ret[t] = Err("IOError") \/ PoisonedLockError(t)
        /\ (/\ Returned(t)
            /\ ~InBounds(req[t].off, req[t].len)
            /\ req[t].len = 0 /\ SeekOk(req[t].off)) =>
               ret[t] = Ok(<<>>) \/ PoisonedLockError(t)

\* A short read: the range starts inside the file and ends past it.
C4_Witness ==
    \E t \in Threads :
        /\ Returned(t)
        /\ req[t].off < Len(content)
        /\ req[t].len >= 1 /\ req[t].len <= IsizeMax
        /\ ~InBounds(req[t].off, req[t].len)
        /\ ret[t] = Err("IOError")

\* C5: once a holder of the lock has panicked, a read_at through any clone
\* is not kept waiting, returns the lock error as its result and makes no
\* seek and no read on the file.
C5_PoisonReported ==
    /\ [](\A t \in Threads :
            (pc[t] = "lock" /\ poisoned[handle[t]]) => ENABLED read_at_lock(t))
    /\ [][\A t \in Threads :
            (pc[t] = "lock" /\ poisoned[handle[t]] /\ pc'[t] # "lock") =>
                /\ pc'[t] = "ret"
                /\ ret'[t] = Err("LockError")
                /\ ops'[t] = <<>>
                /\ pos' = pos /\ owner' = owner]_vars

\* A call returned the lock error after another thread panicked in read_at.
C5_Witness ==
    \E t, u \in Threads :
        /\ pc[u] = "panicked"
        /\ Returned(t) /\ ret[t] = Err("LockError") /\ ops[t] = <<>>

\* C6: two read_at calls with the same offset and length return the same
\* result, whatever the calls before them left in the shared position
\* (a call refused with the lock error of a poisoned Mutex aside).
C6_CursorIndependent ==
    \A t, u \in Threads :
        (/\ Returned(t) /\ Returned(u)
         /\ handle[t] = handle[u]
         /\ req[t] = req[u]
         /\ ret[t].kind # "LockError" /\ ret[u].kind # "LockError") =>
            ret[t] = ret[u]

\* Two calls for the same non-empty range both returned it: the later one
\* started with the position the earlier one left behind its range.
C6_Witness ==
    \E t, u \in Threads :
        /\ t # u /\ handle[t] = handle[u]
        /\ Returned(t) /\ Returned(u)
        /\ req[t] = req[u] /\ req[t].len >= 1
        /\ ret[t].kind = "Ok" /\ ret[u] = ret[t]
        /\ pos[handle[t]] = req[t].off + req[t].len

\* C7: the clones of a RandomAccessFile all refer to the one resource, which
\* stays open while any clone is live (a clone in the middle of read_at
\* included) and is released once no clone is left.
C7_SharedUntilLastDrop ==
    /\ \A t \in Threads : handle[t] \in {"A", NoInst}
    /\ \A i \in Inst :
          /\ strong[i] = Cardinality({t \in Threads : handle[t] = i})
          /\ (\E t \in Threads : handle[t] = i) => file[i] = "open"
          /\ (file[i] # "none" /\ \A t \in Threads : handle[t] # i) => file[i] = "closed"
    /\ \A t \in Threads : pc[t] \notin {"idle", "panicked"} =>
          (handle[t] # NoInst /\ file[handle[t]] = "open")

\* The first owner dropped its handle while a read_at through a clone is in
\* progress, and the resource is still open.
C7_Witness ==
    \E u \in Threads :
        /\ handle[1] = NoInst /\ u # 1
        /\ pc[u] = "read" /\ file[handle[u]] = "open"

\* C8: a path never has more than one outstanding lock token: lock(p)
\* succeeds when no token for p is outstanding, fails with the locked error
\* while one is (whoever asks), and succeeds again after unlock(token).
C8_OneTokenPerPath ==
    /\ [](\A p \in Paths : Outstanding(p) <= 1 /\ (p \in held <=> Outstanding(p) = 1))
    /\ [][\A c \in Claimants, p \in Paths :
            (lockRet'[c] # lockRet[c] /\ lockRet'[c].op = "lock" /\ lockRet'[c].path = p) =>
                IF Outstanding(p) = 0
                THEN lockRet'[c].kind = "Ok" /\ tokens'[c][p] = tokens[c][p] + 1
                ELSE lockRet'[c].kind = "Locked" /\ tokens' = tokens]_vars

\* One claimant has unlocked a path and the other then locked it with success.
C8_Witness ==
    \E c, d \in Claimants, p \in Paths :
        /\ c # d
        /\ lockRet[c] = [op |-> "unlock", path |-> p, kind |-> "Ok"]
        /\ lockRet[d] = [op |-> "lock", path |-> p, kind |-> "Ok"]
        /\ tokens[d][p] = 1 /\ tokens[c][p] = 0

\* C9 as stated: when every write call of a log(message) returns without
\* error, the sink has received exactly the bytes of the message followed by
\* one newline byte.
C9_Claim ==
    [][(/\ logs' = logs + 1
        /\ \A k \in 1 .. Len(writes') : writes'[k].res.ok) =>
            sink' = sink \o as_bytes(msg') \o <<NewLine>>]_vars

\* C10: log returns () to its caller whatever its writes returned, it never
\* ends in an error or a panic, and the Logger can be used for the next call.
C10_LogNeverFails ==
    /\ logRet \in {"none", "unit"}
    /\ logs >= 1 => logRet = "unit"
    /\ logs < MaxLogs => ENABLED NextLogger

\* A log call whose writes went through, made after a write had failed.
C10_Witness ==
    /\ failed /\ logs >= 2 /\ logRet = "unit"
    /\ Len(writes) = 2
    /\ \A k \in 1 .. Len(writes) : writes[k].res.ok /\ writes[k].res.n = Len(writes[k].buf)

\* C15: read_at makes one attempt: its calls on the file are at most one
\* seek followed by at most one read_exact, and a failed seek ends the call
\* with the I/O error, no read issued and nothing retried.
C15_SingleAttempt ==
    \A t \in Threads :
        /\ ops[t] \in {<<>>, <<"seek">>, <<"seek", "read_exact">>}
        /\ pc[t] = "seek" => ops[t] = <<>>
        /\ pc[t] = "read" => ops[t] = <<"seek">>
        /\ (Returned(t) /\ ~SeekOk(req[t].off) /\ ret[t].kind # "LockError") =>
              (ret[t] = Err("IOError") /\ ops[t] = <<"seek">>)

\* A call whose seek was refused returned the I/O error after that one seek.
C15_Witness ==
    \E t \in Threads :
        /\ Returned(t) /\ ~SeekOk(req[t].off)
        /\ ret[t] = Err("IOError") /\ ops[t] = <<"seek">>

\* C16: the lock is held only between read_at's lock and the end of its
\* read: every return path has released it, an I/O failure never poisons it,
\* and an in-bounds call on a Mutex nobody poisoned returns its bytes.
C16_ReleasedOnEveryPath ==
    /\ \A i \in Inst :
          /\ owner[i] # NoThread =>
                (handle[owner[i]] = i /\ pc[owner[i]] \in {"seek", "read"})
          /\ poisoned[i] => \E t \in Threads : pc[t] = "panicked"
    /\ \A t \in Threads :
          (/\ Returned(t) /\ InBounds(req[t].off, req[t].len)
           /\ ~poisoned[handle[t]]) =>
              ret[t] = Ok(Range(content, req[t].off, req[t].len))

\* One call failed on a short read, and a call made after it through the
\* other clone returned its bytes (the position is the end of its range).
C16_Witness ==
    \E t, u \in Threads :
        /\ t # u /\ handle[t] = handle[u]
        /\ Returned(t) /\ ret[t] = Err("IOError") /\ ops[t] = <<"seek", "read_exact">>
        /\ Returned(u) /\ ret[u].kind = "Ok" /\ req[u].len >= 1
        /\ pos[handle[u]] = req[u].off + req[u].len
        /\ pos[handle[u]] < Len(content)

\* C18: a lock error means the Mutex is poisoned, and a poisoned Mutex stays
\* poisoned for every clone: from then on every read_at that ends, ends with
\* the lock error, none is between lock and read, and the file position is
\* never touched again.
C18_PoisonPermanent ==
    /\ [](\A t \in Threads : ret[t].kind = "LockError" => poisoned[handle[t]])
    /\ [](\A i \in Inst : poisoned[i] =>
            \A t \in Threads : handle[t] = i => pc[t] \notin {"seek", "read"})
    /\ [][\A i \in Inst : poisoned[i] =>
            /\ poisoned'[i]
            /\ pos'[i] = pos[i]
            /\ \A t \in Threads :
                  (handle[t] = i /\ pc[t] # "ret" /\ pc'[t] = "ret") =>
                      (ret'[t] = Err("LockError") /\ ops'[t] = <<>>)]_vars

\* After a panic in one thread, a call for bytes that are in the file was
\* refused with the lock error and left the position where it was.
C18_Witness ==
    \E t, u \in Threads :
        /\ pc[u] = "panicked" /\ handle[u] = NoInst
        /\ Returned(t) /\ ret[t] = Err("LockError")
        /\ InBounds(req[t].off, req[t].len) /\ req[t].len >= 1
        /\ pos[handle[t]] # req[t].off

Ended(t) == pc[t] \in {"ret", "panicked"}

\* C17 as stated: under fair scheduling every read_at that waits for the
\* lock eventually ends, however many calls the other threads make.
C17_Original ==
    \A t \in Threads : (pc[t] = "lock") ~> Ended(t)

\* C17 amended: under fair scheduling a read_at that holds the lock always
\* ends, and while a call waits the lock is never stuck: the call gets it or
\* another call does; a call that waits is sure to end when the lock is
\* handed out with strong fairness.
C17_Amended ==
    /\ \A t \in Threads : (pc[t] \in {"seek", "read"}) ~> Ended(t)
    /\ \A t \in Threads :
          (pc[t] = "lock") ~>
              (pc[t] # "lock" \/ \E u \in Threads \ {t} : pc[u] = "seek")
    /\ (\A t \in Threads : SF_vars(read_at_lock(t))) =>
          (\A t \in Threads : (pc[t] = "lock") ~> Ended(t))

\* A call waits for the lock while a call of another thread holds it.
C17_Witness ==
    \E t, u \in Threads :
        /\ t # u /\ handle[t] = handle[u]
        /\ pc[t] = "lock" /\ pc[u] = "seek" /\ owner[handle[t]] = u

\* The instance thread t works on, and the threads that take a step.
Moved(t) == pc'[t] # pc[t]

\* C11: two RandomAccessFile instances made by separate new calls are
\* independent: a call on one is never kept waiting by a holder of the
\* other's lock, and no step of a call on one changes the other's position,
\* lock or poison.
C11_InstancesIndependent ==
    /\ [](\A t \in Threads :
            (pc[t] = "lock" /\ owner[handle[t]] = NoThread) => ENABLED read_at_lock(t))
    /\ [][\A t \in Threads : (Moved(t) /\ handle[t] # NoInst) =>
            \A j \in Inst \ {handle[t]} :
                /\ pos'[j] = pos[j]
                /\ owner'[j] = owner[j]
                /\ poisoned'[j] = poisoned[j]]_vars

\* One instance is poisoned and the other, read at a different position by
\* another thread, has returned bytes.
C11_Witness ==
    \E t, u \in Threads :
        /\ handle[t] # NoInst /\ handle[u] # NoInst /\ handle[t] # handle[u]
        /\ pc[u] = "panicked" /\ poisoned[handle[u]] /\ ~poisoned[handle[t]]
        /\ Returned(t) /\ ret[t].kind = "Ok" /\ req[t].len >= 1
        /\ pos[handle[t]] # pos[handle[u]]

\* C19: every log call issues exactly two writes to its sink, the message's
\* bytes and then the newline; the newline is written even when the message
\* write failed, and the sink then gains whatever the newline write took and
\* nothing of the message.
C19_TwoWritesAlways ==
    /\ [](logs >= 1 =>
            /\ Len(writes) = 2
            /\ writes[1].buf = as_bytes(msg)
            /\ writes[2].buf = <<NewLine>>)
    /\ [][(logs' = logs + 1 /\ ~writes'[1].res.ok) =>
            /\ Len(writes') = 2
            /\ sink' = sink \o Taken(writes'[2].buf, writes'[2].res)]_vars

\* A non-empty message whose write failed, the newline write went through:
\* the sink holds a newline and no byte of the message.
C19_Witness ==
    /\ logs = 1 /\ msg # <<>>
    /\ Len(writes) = 2
    /\ ~writes[1].res.ok /\ writes[2].res.ok /\ writes[2].res.n = 1
    /\ sink = <<NewLine>>

C13_MkdirRmdirChildren ==
    [][LET p == fsRet'.path IN
        /\ (fsRet'.op = "mkdir" /\ fsRet'.ok) =>
              (p # Root /\ name_of(p) \in ChildrenIn(fs', parent_of(p)))
        /\ (fsRet'.op = "rmdir" /\ fsRet'.ok) =>
              (p # Root /\ name_of(p) \in children(parent_of(p))
                        /\ name_of(p) \notin ChildrenIn(fs', parent_of(p)))
        /\ (fsRet'.op = "mkdir" /\ (exists(p) \/ ~exists(parent_of(p)))) =>
              (~fsRet'.ok /\ \A d \in FsPaths : ChildrenIn(fs', d) = children(d))]_vars

\* A directory made inside another directory was removed again, while its
\* sibling stays.
C13_Witness ==
    /\ fsRet.op = "rmdir" /\ fsRet.ok
    /\ Len(fsRet.path) = Cardinality(Names)
    /\ children(parent_of(fsRet.path)) = Names \ {name_of(fsRet.path)}

\* C14: once the bytes B were written through the handle of
\* open_writable_file(path) and the handle is closed, open_sequential_file(path)
\* succeeds and reads exactly B from the start and size_of(path) is B's
\* length, whatever the file held before.
C14_WrittenIsRead ==
    (fsRet.op = "close" /\ ~wh.open) =>
        LET h == open_sequential_file(wh.path)
        IN /\ h.ok
           /\ read_to_end(h) = wh.written
           /\ size_of(wh.path) = Len(wh.written)

\* A file that held more bytes was opened for writing, written with other
\* bytes and closed.
C14_Witness ==
    /\ fsRet.op = "close" /\ ~wh.open
    /\ wh.written # <<>> /\ Len(wh.before) > Len(wh.written)
    /\ wh.written # SubSeq(wh.before, 1, Len(wh.written))

====
